---- MODULE Spec2Model ----
(***************************************************************************)
(* Model of src/Fetch_AWS_SSO_Enabled_Users.py: main() and the helpers it  *)
(* calls.  One action per API call (with its success and failure outcome)  *)
(* and one per loop head of main / get_account_assignments_for_user.       *)
(* Python strings are modelled as tuples (the empty string is <<>>),       *)
(* Python dicts as functions whose DOMAIN is the set of keys.              *)
(***************************************************************************)
EXTENDS Integers, Sequences, FiniteSets, TLC

(* ---- bounds of the modelled AWS organisation ---- *)
NumUsers == 3
NumPS == 2
NumAccounts == 2
MaxFailures == 2

(* ---- identifiers and strings ---- *)
EmptyStr == <<>>
UserIdOf(i) == <<"user", i>>
PsArnOf(p) == <<"ps", p>>
AccountIdOf(a) == <<"acct", a>>
EmptyDict == [k \in {} |-> EmptyStr]

(* dict.get(key, default) *)
Get(d, key, default) == IF key \in DOMAIN d THEN d[key] ELSE default

(* d[key] = value *)
DictSet(d, key, value) ==
    [k \in DOMAIN d \cup {key} |-> IF k = key THEN value ELSE d[k]]

RECURSIVE SeqOf(_, _, _)
(* << f[lo], ..., f[hi] >> *)
SeqOf(f, lo, hi) == IF lo > hi THEN <<>> ELSE <<f[lo]>> \o SeqOf(f, lo + 1, hi)

Min(x, y) == IF x < y THEN x ELSE y

(* ---- the directory and the organisation the API answers from ---- *)
(* A paginated source: the first item alone, an empty page with a cursor,  *)
(* then the remaining items.                                               *)
Paginate(s) == IF Len(s) <= 1 THEN <<s>> ELSE << <<Head(s)>>, <<>>, Tail(s) >>

(* a paginator that takes an empty page for the end of the listing *)
HasNextPage_StopsOnEmpty(pages, n) == n < Len(pages) /\ pages[n] # <<>>

(* the paginator follows the cursor: another page is requested while the *)
(* page just read came with one                                           *)
HasNextPage(pages, n) == n < Len(pages)

DirectoryUser(i) ==
    IF i % 2 = 1
    THEN [UserId |-> UserIdOf(i), UserName |-> <<"name", i>>,
          Emails |-> << [Value |-> <<"alt", i>>],
                        [Primary |-> TRUE, Value |-> <<"mail", i>>] >>]
    ELSE [UserId |-> UserIdOf(i)]

(* the directory lists the users in an order that is not the sorted one *)
DirectoryUsers == SeqOf([k \in 1..NumUsers |-> DirectoryUser(NumUsers + 1 - k)], 1, NumUsers)
UserPages == Paginate(DirectoryUsers)

AllPermissionSets == SeqOf([p \in 1..NumPS |-> PsArnOf(p)], 1, NumPS)
PermissionSetPages == Paginate(AllPermissionSets)

PsDescription(ps_arn) == [Name |-> <<"psname", ps_arn[2]>>, PermissionSetArn |-> ps_arn]
AttachedManagedPolicies(ps_arn) == << [Name |-> <<"policy", ps_arn[2]>>] >>
InlinePolicyOf(ps_arn) == <<"inline", ps_arn[2]>>

(* what list_instances can answer: no instance, or one or two instances *)
InstanceResponses ==
    { <<>>,
      << [InstanceArn |-> <<"instance", 1>>, IdentityStoreId |-> <<"store", 1>>] >>,
      << [InstanceArn |-> <<"instance", 1>>, IdentityStoreId |-> <<"store", 1>>],
         [InstanceArn |-> <<"instance", 2>>, IdentityStoreId |-> <<"store", 2>>] >> }

(* permission set p is provisioned to the accounts 1..p *)
ProvisionedAccounts(ps_arn) ==
    SeqOf([a \in 1..NumAccounts |-> AccountIdOf(a)], 1, Min(ps_arn[2], NumAccounts))
AccountPages(ps_arn) == Paginate(ProvisionedAccounts(ps_arn))

(* the principals assigned on a pair: user a, group a, then users 1..a-1 *)
Principals(ps_arn, account_id) ==
    << [PrincipalType |-> "USER", PrincipalId |-> UserIdOf(account_id[2])],
       [PrincipalType |-> "GROUP", PrincipalId |-> UserIdOf(account_id[2])] >>
    \o SeqOf([u \in 1..NumUsers |-> [PrincipalType |-> "USER", PrincipalId |-> UserIdOf(u)]],
             1, Min(account_id[2] - 1, NumUsers))
AssignmentPages(ps_arn, account_id) == Paginate(Principals(ps_arn, account_id))

AccountNameOf(account_id) == <<"acctname", account_id[2]>>

(* ---- state ---- *)
VARIABLES
    pc,                      \* position in main
    instance_arn,            \* None is EmptyStr
    identity_store_id,       \* None is EmptyStr
    permission_sets,
    permission_set_details,
    ps_details,              \* local of get_permission_set_details
    all_users,
    enabled_users,
    all_assignments,         \* local of get_account_assignments_for_user
    accounts,                \* local of get_account_assignments_for_user
    processed_assignments,
    page,                    \* next page of the paginator being iterated
    userIdx, psIdx, acctIdx, asgIdx,   \* positions of the for loops
    exported,                \* what export_to_json was called with, in order
    failures,                \* number of ClientErrors raised so far
    lastCall,                \* the most recent API call
    issued,                  \* the API operations called so far
    callCount,               \* calls per (operation, key) of the non-paginated lookups
    listedPS,                \* permission sets whose accounts were enumerated for this user
    failedPS,                \* permission sets whose account listing failed for this user
    failedPairs,             \* (ps, account) pairs whose assignment listing failed for this user
    listedPairs,             \* pairs whose assignment listing was called for this user
    skippedBefore,           \* permission sets skipped for an earlier user
    raised,                  \* the (operation, key) lookups that raised ClientError
    returned                 \* per user id, what the correlator returned

vars == <<pc, instance_arn, identity_store_id, permission_sets, permission_set_details, ps_details,
          all_users, enabled_users, all_assignments, accounts, processed_assignments,
          page, userIdx, psIdx, acctIdx, asgIdx, exported, failures, raised, lastCall, issued,
          callCount, listedPS, failedPS, failedPairs, listedPairs, skippedBefore,
          returned>>

locals == <<ps_details, all_assignments, accounts, processed_assignments, page,
            userIdx, psIdx, acctIdx, asgIdx>>
history == <<listedPS, failedPS, failedPairs, listedPairs, skippedBefore, returned>>

CanFail == failures < MaxFailures

(* bookkeeping of one API call *)
Call(op) == /\ lastCall' = op
            /\ issued' = issued \cup {op}
Count(op, key) ==
    callCount' = DictSet(callCount, <<op, key>>, Get(callCount, <<op, key>>, 0) + 1)
Raise(op, key) == /\ failures' = failures + 1
                  /\ raised' = raised \cup {<<op, key>>}
NoRaise == UNCHANGED <<failures, raised>>

Init ==
    /\ pc = "Start"
    /\ instance_arn = EmptyStr
    /\ identity_store_id = EmptyStr
    /\ permission_sets = <<>>
    /\ permission_set_details = EmptyDict
    /\ ps_details = EmptyDict
    /\ all_users = <<>>
    /\ enabled_users = <<>>
    /\ all_assignments = <<>>
    /\ accounts = <<>>
    /\ processed_assignments = <<>>
    /\ page = 1
    /\ userIdx = 1 /\ psIdx = 1 /\ acctIdx = 1 /\ asgIdx = 1
    /\ exported = <<>>
    /\ failures = 0
    /\ lastCall = "none"
    /\ issued = {}
    /\ callCount = [k \in {} |-> 0]
    /\ listedPS = {} /\ failedPS = {} /\ failedPairs = {} /\ listedPairs = {}
    /\ skippedBefore = {}
    /\ raised = {}
    /\ returned = [k \in {} |-> <<>>]

(* ---- get_instance_info and main's exit on its result ---- *)
(* the test left out *)
InstanceMissing_Never(arn, store) == FALSE

(* main line 184: if not instance_arn or not identity_store_id: return *)
InstanceMissing(arn, store) == arn = EmptyStr \/ store = EmptyStr

AfterInstanceInfo(arn, store) ==
    /\ instance_arn' = arn
    /\ identity_store_id' = store
    /\ pc' = IF InstanceMissing(arn, store) THEN "NoInstance" ELSE "ListPermissionSets"

ListInstancesOk ==
    /\ pc = "Start"
    /\ \E response \in InstanceResponses :
          IF response # <<>>
          THEN AfterInstanceInfo(response[1].InstanceArn, response[1].IdentityStoreId)
          ELSE AfterInstanceInfo(EmptyStr, EmptyStr)
    /\ Call("list_instances") /\ NoRaise
    /\ UNCHANGED <<permission_sets, permission_set_details, all_users, enabled_users,
                   exported, callCount>>
    /\ UNCHANGED locals /\ UNCHANGED history

ListInstancesError ==
    /\ pc = "Start" /\ CanFail
    /\ AfterInstanceInfo(EmptyStr, EmptyStr)
    /\ Call("list_instances") /\ Raise("list_instances", EmptyStr)
    /\ UNCHANGED <<permission_sets, permission_set_details, all_users, enabled_users,
                   exported, callCount>>
    /\ UNCHANGED locals /\ UNCHANGED history

(* ---- get_all_permission_sets ---- *)
ListPermissionSetsOk ==
    /\ pc = "ListPermissionSets"
    /\ permission_sets' = permission_sets \o PermissionSetPages[page]
    /\ IF HasNextPage(PermissionSetPages, page)
       THEN page' = page + 1 /\ pc' = pc /\ psIdx' = psIdx
       ELSE page' = 1 /\ pc' = "CatalogLoop" /\ psIdx' = 1
    /\ Call("list_permission_sets") /\ NoRaise
    /\ IF page = 1 THEN Count("list_permission_sets", instance_arn) ELSE UNCHANGED callCount
    /\ UNCHANGED <<instance_arn, identity_store_id, permission_set_details, ps_details,
                   all_users, enabled_users, all_assignments, accounts,
                   processed_assignments, userIdx, acctIdx, asgIdx, exported>>
    /\ UNCHANGED history

(* the handler returning the identifiers read before the failing page *)
ListPermissionSetsError_KeepsPartial ==
    /\ pc = "ListPermissionSets" /\ CanFail
    /\ permission_sets' = permission_sets
    /\ page' = 1 /\ pc' = "CatalogLoop" /\ psIdx' = 1
    /\ Call("list_permission_sets") /\ Raise("list_permission_sets", EmptyStr)
    /\ IF page = 1 THEN Count("list_permission_sets", instance_arn) ELSE UNCHANGED callCount
    /\ UNCHANGED <<instance_arn, identity_store_id, permission_set_details, ps_details,
                   all_users, enabled_users, all_assignments, accounts,
                   processed_assignments, userIdx, acctIdx, asgIdx, exported>>
    /\ UNCHANGED history

(* the listing without its try/except: the ClientError leaves main *)
ListPermissionSetsError_Propagates ==
    /\ pc = "ListPermissionSets" /\ CanFail
    /\ pc' = "ClientError"
    /\ Call("list_permission_sets") /\ Raise("list_permission_sets", EmptyStr)
    /\ IF page = 1 THEN Count("list_permission_sets", instance_arn) ELSE UNCHANGED callCount
    /\ UNCHANGED <<instance_arn, identity_store_id, permission_sets, permission_set_details,
                   all_users, enabled_users, exported>>
    /\ UNCHANGED locals /\ UNCHANGED history

(* except ClientError: return [] *)
ListPermissionSetsError ==
    /\ pc = "ListPermissionSets" /\ CanFail
    /\ permission_sets' = <<>>
    /\ page' = 1 /\ pc' = "CatalogLoop" /\ psIdx' = 1
    /\ Call("list_permission_sets") /\ Raise("list_permission_sets", EmptyStr)
    /\ IF page = 1 THEN Count("list_permission_sets", instance_arn) ELSE UNCHANGED callCount
    /\ UNCHANGED <<instance_arn, identity_store_id, permission_set_details, ps_details,
                   all_users, enabled_users, all_assignments, accounts,
                   processed_assignments, userIdx, acctIdx, asgIdx, exported>>
    /\ UNCHANGED history

(* ---- main lines 191-194: the catalog loop ---- *)
CatalogLoop ==
    /\ pc = "CatalogLoop"
    /\ pc' = IF psIdx <= Len(permission_sets) THEN "DescribePermissionSet" ELSE "ListUsers"
    /\ page' = 1
    /\ UNCHANGED <<instance_arn, identity_store_id, permission_sets, permission_set_details,
                   ps_details, all_users, enabled_users, all_assignments, accounts,
                   processed_assignments, userIdx, psIdx, acctIdx, asgIdx, exported,
                   failures, raised, lastCall, issued, callCount>>
    /\ UNCHANGED history

(* main line 193: permission_set_details[ps_arn] = <returned details> *)
StoreDetails(details) ==
    /\ permission_set_details' =
          DictSet(permission_set_details, permission_sets[psIdx], details)
    /\ psIdx' = psIdx + 1
    /\ pc' = "CatalogLoop"

catalogFrame == <<instance_arn, identity_store_id, permission_sets, all_users,
                  enabled_users, all_assignments, accounts, processed_assignments,
                  page, userIdx, acctIdx, asgIdx, exported>>

(* ---- get_permission_set_details ---- *)
DescribePermissionSetOk ==
    /\ pc = "DescribePermissionSet"
    /\ ps_details' = PsDescription(permission_sets[psIdx])
    /\ pc' = "ListManagedPolicies"
    /\ Call("describe_permission_set") /\ NoRaise
    /\ Count("describe_permission_set", permission_sets[psIdx])
    /\ UNCHANGED <<permission_set_details, psIdx>>
    /\ UNCHANGED catalogFrame /\ UNCHANGED history

(* the failed permission set left out of the catalog *)
DescribePermissionSetError_NoEntry ==
    /\ pc = "DescribePermissionSet" /\ CanFail
    /\ psIdx' = psIdx + 1
    /\ pc' = "CatalogLoop"
    /\ Call("describe_permission_set")
    /\ Raise("describe_permission_set", permission_sets[psIdx])
    /\ Count("describe_permission_set", permission_sets[psIdx])
    /\ UNCHANGED <<ps_details, permission_set_details>>
    /\ UNCHANGED catalogFrame /\ UNCHANGED history

(* outer except ClientError: return {} *)
DescribePermissionSetError ==
    /\ pc = "DescribePermissionSet" /\ CanFail
    /\ StoreDetails(EmptyDict)
    /\ Call("describe_permission_set")
    /\ Raise("describe_permission_set", permission_sets[psIdx])
    /\ Count("describe_permission_set", permission_sets[psIdx])
    /\ UNCHANGED ps_details
    /\ UNCHANGED catalogFrame /\ UNCHANGED history

ListManagedPoliciesOk ==
    /\ pc = "ListManagedPolicies"
    /\ ps_details' = DictSet(ps_details, "ManagedPolicies",
                             AttachedManagedPolicies(permission_sets[psIdx]))
    /\ pc' = "GetInlinePolicy"
    /\ Call("list_managed_policies_in_permission_set") /\ NoRaise
    /\ Count("list_managed_policies_in_permission_set", permission_sets[psIdx])
    /\ UNCHANGED <<permission_set_details, psIdx>>
    /\ UNCHANGED catalogFrame /\ UNCHANGED history

(* the lookup without its own try/except: the outer handler returns {} *)
ListManagedPoliciesError_Aborts ==
    /\ pc = "ListManagedPolicies" /\ CanFail
    /\ StoreDetails(EmptyDict)
    /\ Call("list_managed_policies_in_permission_set")
    /\ Raise("list_managed_policies_in_permission_set", permission_sets[psIdx])
    /\ Count("list_managed_policies_in_permission_set", permission_sets[psIdx])
    /\ UNCHANGED ps_details
    /\ UNCHANGED catalogFrame /\ UNCHANGED history

(* except ClientError: ps_details['ManagedPolicies'] = [] *)
ListManagedPoliciesError ==
    /\ pc = "ListManagedPolicies" /\ CanFail
    /\ ps_details' = DictSet(ps_details, "ManagedPolicies", <<>>)
    /\ pc' = "GetInlinePolicy"
    /\ Call("list_managed_policies_in_permission_set")
    /\ Raise("list_managed_policies_in_permission_set", permission_sets[psIdx])
    /\ Count("list_managed_policies_in_permission_set", permission_sets[psIdx])
    /\ UNCHANGED <<permission_set_details, psIdx>>
    /\ UNCHANGED catalogFrame /\ UNCHANGED history

GetInlinePolicyOk ==
    /\ pc = "GetInlinePolicy"
    /\ ps_details' = DictSet(ps_details, "InlinePolicy", InlinePolicyOf(permission_sets[psIdx]))
    /\ StoreDetails(ps_details')
    /\ Call("get_inline_policy_for_permission_set") /\ NoRaise
    /\ Count("get_inline_policy_for_permission_set", permission_sets[psIdx])
    /\ UNCHANGED catalogFrame /\ UNCHANGED history

(* except ClientError: ps_details['InlinePolicy'] = '' *)
GetInlinePolicyError ==
    /\ pc = "GetInlinePolicy" /\ CanFail
    /\ ps_details' = DictSet(ps_details, "InlinePolicy", EmptyStr)
    /\ StoreDetails(ps_details')
    /\ Call("get_inline_policy_for_permission_set")
    /\ Raise("get_inline_policy_for_permission_set", permission_sets[psIdx])
    /\ Count("get_inline_policy_for_permission_set", permission_sets[psIdx])
    /\ UNCHANGED catalogFrame /\ UNCHANGED history

(* ---- main lines 198-205: the user listing ---- *)
usersFrame == <<instance_arn, identity_store_id, permission_sets, permission_set_details,
                ps_details, enabled_users, all_assignments, accounts,
                processed_assignments, psIdx, acctIdx, asgIdx, exported, callCount>>

ListUsersOk ==
    /\ pc = "ListUsers"
    /\ all_users' = all_users \o UserPages[page]
    /\ IF HasNextPage(UserPages, page)
       THEN page' = page + 1 /\ pc' = pc
       ELSE page' = 1 /\ pc' = "UserLoop"
    /\ userIdx' = 1
    /\ Call("list_users") /\ NoRaise
    /\ UNCHANGED usersFrame /\ UNCHANGED history

(* except ClientError: return *)
ListUsersError ==
    /\ pc = "ListUsers" /\ CanFail
    /\ pc' = "UserListingFailed"
    /\ Call("list_users")
    /\ Raise("list_users", EmptyStr)
    /\ UNCHANGED <<all_users, page, userIdx>>
    /\ UNCHANGED usersFrame /\ UNCHANGED history

(* ---- main line 211: for user in all_users ---- *)
UserLoop ==
    /\ pc = "UserLoop"
    /\ IF userIdx <= Len(all_users)
       THEN /\ pc' = "PermissionSetLoop"
            /\ all_assignments' = <<>>
            /\ psIdx' = 1
            /\ skippedBefore' = skippedBefore \cup failedPS
            /\ listedPS' = {} /\ failedPS' = {} /\ failedPairs' = {} /\ listedPairs' = {}
            /\ UNCHANGED returned
       ELSE /\ pc' = "Export"
            /\ UNCHANGED <<all_assignments, psIdx>>
            /\ UNCHANGED history
    /\ UNCHANGED <<instance_arn, identity_store_id, permission_sets, permission_set_details,
                   ps_details, all_users, enabled_users, accounts, processed_assignments,
                   page, userIdx, acctIdx, asgIdx, exported, failures, raised, lastCall, issued,
                   callCount>>

(* ---- get_account_assignments_for_user ---- *)
user_id == all_users[userIdx].UserId

correlatorFrame == <<instance_arn, identity_store_id, permission_sets,
                     permission_set_details, ps_details, all_users, enabled_users,
                     processed_assignments, userIdx, asgIdx, exported, callCount,
                     skippedBefore>>

(* line 58: for ps_arn in permission_sets; line 98: return all_assignments *)
PermissionSetLoop ==
    /\ pc = "PermissionSetLoop"
    /\ IF psIdx <= Len(permission_sets)
       THEN /\ pc' = "ListAccounts" /\ accounts' = <<>> /\ page' = 1
            /\ UNCHANGED returned
       ELSE /\ pc' = "CheckAssignments" /\ UNCHANGED <<accounts, page>>
            /\ returned' = DictSet(returned, user_id, all_assignments)
    /\ UNCHANGED <<all_assignments, psIdx, acctIdx, failures, raised, lastCall, issued,
                   listedPS, failedPS, failedPairs, listedPairs>>
    /\ UNCHANGED correlatorFrame

ListAccountsOk ==
    /\ pc = "ListAccounts"
    /\ accounts' = accounts \o AccountPages(permission_sets[psIdx])[page]
    /\ IF HasNextPage(AccountPages(permission_sets[psIdx]), page)
       THEN page' = page + 1 /\ pc' = pc
       ELSE page' = 1 /\ pc' = "AccountLoop"
    /\ acctIdx' = 1
    /\ listedPS' = listedPS \cup {permission_sets[psIdx]}
    /\ Call("list_accounts_for_provisioned_permission_set") /\ NoRaise
    /\ UNCHANGED <<all_assignments, psIdx, failedPS, failedPairs, listedPairs>>
    /\ UNCHANGED correlatorFrame /\ UNCHANGED returned

(* the handler around the paginator alone: the accounts read so far are used *)
ListAccountsError_KeepsPartial ==
    /\ pc = "ListAccounts" /\ CanFail
    /\ pc' = "AccountLoop"
    /\ acctIdx' = 1
    /\ listedPS' = listedPS \cup {permission_sets[psIdx]}
    /\ failedPS' = failedPS \cup {permission_sets[psIdx]}
    /\ Call("list_accounts_for_provisioned_permission_set")
    /\ Raise("list_accounts_for_provisioned_permission_set", EmptyStr)
    /\ UNCHANGED <<all_assignments, accounts, page, psIdx, failedPairs, listedPairs>>
    /\ UNCHANGED correlatorFrame /\ UNCHANGED returned

(* lines 94-96: except ClientError: continue with the next permission set *)
ListAccountsError ==
    /\ pc = "ListAccounts" /\ CanFail
    /\ pc' = "PermissionSetLoop"
    /\ psIdx' = psIdx + 1
    /\ listedPS' = listedPS \cup {permission_sets[psIdx]}
    /\ failedPS' = failedPS \cup {permission_sets[psIdx]}
    /\ Call("list_accounts_for_provisioned_permission_set")
    /\ Raise("list_accounts_for_provisioned_permission_set", EmptyStr)
    /\ UNCHANGED <<all_assignments, accounts, page, acctIdx, failedPairs, listedPairs>>
    /\ UNCHANGED correlatorFrame /\ UNCHANGED returned

(* line 71: for account_id in accounts *)
AccountLoop ==
    /\ pc = "AccountLoop"
    /\ IF acctIdx <= Len(accounts)
       THEN pc' = "ListAssignments" /\ page' = 1 /\ psIdx' = psIdx
       ELSE pc' = "PermissionSetLoop" /\ page' = page /\ psIdx' = psIdx + 1
    /\ UNCHANGED <<all_assignments, accounts, acctIdx, failures, raised, lastCall, issued,
                   listedPS, failedPS, failedPairs, listedPairs>>
    /\ UNCHANGED correlatorFrame /\ UNCHANGED returned

(* the filter without its principal-type test *)
UserAssignments_AnyType(items, uid) ==
    SelectSeq(items, LAMBDA a : a.PrincipalId = uid)

(* lines 81-82: the assignments of a page that belong to the user *)
UserAssignments(items, uid) ==
    SelectSeq(items, LAMBDA a : a.PrincipalType = "USER" /\ a.PrincipalId = uid)

(* lines 85-88: each one is stamped with the pair and appended *)
Stamp(items, ps_arn, account_id) ==
    [i \in 1..Len(items) |->
        [PrincipalType |-> items[i].PrincipalType, PrincipalId |-> items[i].PrincipalId,
         PermissionSetArn |-> ps_arn, AccountId |-> account_id]]

ListAssignmentsOk ==
    /\ pc = "ListAssignments"
    /\ LET ps_arn == permission_sets[psIdx]
           account_id == accounts[acctIdx]
           pages == AssignmentPages(ps_arn, account_id)
       IN /\ all_assignments' = all_assignments \o
                Stamp(UserAssignments(pages[page], user_id), ps_arn, account_id)
          /\ IF HasNextPage(pages, page)
             THEN page' = page + 1 /\ pc' = pc /\ acctIdx' = acctIdx
             ELSE page' = 1 /\ pc' = "AccountLoop" /\ acctIdx' = acctIdx + 1
          /\ listedPairs' = listedPairs \cup {<<ps_arn, account_id>>}
    /\ Call("list_account_assignments") /\ NoRaise
    /\ UNCHANGED <<accounts, psIdx, listedPS, failedPS, failedPairs>>
    /\ UNCHANGED correlatorFrame /\ UNCHANGED returned

(* lines 90-92: except ClientError: continue with the next account *)
ListAssignmentsError ==
    /\ pc = "ListAssignments" /\ CanFail
    /\ pc' = "AccountLoop"
    /\ acctIdx' = acctIdx + 1
    /\ listedPairs' = listedPairs \cup {<<permission_sets[psIdx], accounts[acctIdx]>>}
    /\ failedPairs' = failedPairs \cup {<<permission_sets[psIdx], accounts[acctIdx]>>}
    /\ Call("list_account_assignments")
    /\ Raise("list_account_assignments", EmptyStr)
    /\ UNCHANGED <<all_assignments, accounts, page, psIdx, listedPS, failedPS>>
    /\ UNCHANGED correlatorFrame /\ UNCHANGED returned

(* ---- main lines 223-263: the record of one user ---- *)
(* the test off by one: a single assignment does not enable *)
IsEnabled_MoreThanOne(assignments) == Len(assignments) > 1

(* line 223: if assignments *)
IsEnabled(assignments) == assignments # <<>>

RECURSIVE PrimaryEmail(_)
(* lines 227-231: the value of the first e-mail flagged primary, else '' *)
PrimaryEmail(emails) ==
    IF emails = <<>> THEN EmptyStr
    ELSE IF Get(Head(emails), "Primary", FALSE)
         THEN Get(Head(emails), "Value", EmptyStr)
         ELSE PrimaryEmail(Tail(emails))

(* lines 243-252 *)
ProcessedAssignment(assignment, account_name) ==
    [AccountId |-> assignment.AccountId,
     AccountName |-> account_name,
     PermissionSetArn |-> assignment.PermissionSetArn,
     PermissionSetName |->
         Get(permission_set_details[assignment.PermissionSetArn], "Name", EmptyStr),
     ManagedPolicies |->
         Get(permission_set_details[assignment.PermissionSetArn], "ManagedPolicies", <<>>)]

(* lines 255-261 *)
EnabledUserRecord(user, processed) ==
    [UserId |-> user.UserId,
     UserName |-> Get(user, "UserName", user.UserId),
     Email |-> PrimaryEmail(Get(user, "Emails", <<>>)),
     Status |-> "ENABLED",
     Assignments |-> processed]

aggregateFrame == <<instance_arn, identity_store_id, permission_sets,
                    ps_details, all_users, all_assignments,
                    accounts, page, psIdx, acctIdx, exported>>

CheckAssignments ==
    /\ pc = "CheckAssignments"
    /\ IF IsEnabled(all_assignments)
       THEN pc' = "DescribeAccount" /\ userIdx' = userIdx
       ELSE pc' = "UserLoop" /\ userIdx' = userIdx + 1
    /\ processed_assignments' = <<>>
    /\ asgIdx' = 1
    /\ UNCHANGED <<enabled_users, permission_set_details, failures, raised, lastCall,
                   issued, callCount>>
    /\ UNCHANGED aggregateFrame /\ UNCHANGED history

(* the record put in front of the list *)
Emit_Prepend(records, record) == <<record>> \o records

(* the record replacing what was emitted so far *)
Emit_Overwrite(records, record) == <<record>>

(* line 255: enabled_users.append(record) *)
Emit(records, record) == Append(records, record)

(* the catalog entry enriched in place while the record is built *)
CatalogLookup_WritesBack(account_name) ==
    permission_set_details' =
        DictSet(permission_set_details, all_assignments[asgIdx].PermissionSetArn,
                DictSet(permission_set_details[all_assignments[asgIdx].PermissionSetArn],
                        "AccountName", account_name))

(* lines 242-244: the catalog is read, never written *)
CatalogLookup(account_name) == UNCHANGED permission_set_details

(* the rest of the loop body once get_account_name has returned *)
AfterAccountName(account_name) ==
    /\ CatalogLookup(account_name)
    /\ IF all_assignments[asgIdx].PermissionSetArn \notin DOMAIN permission_set_details
       THEN /\ pc' = "KeyError"
            /\ UNCHANGED <<processed_assignments, enabled_users, asgIdx, userIdx>>
       ELSE /\ processed_assignments' =
                 Append(processed_assignments,
                        ProcessedAssignment(all_assignments[asgIdx], account_name))
            /\ IF asgIdx < Len(all_assignments)
               THEN /\ asgIdx' = asgIdx + 1
                    /\ pc' = pc
                    /\ UNCHANGED <<enabled_users, userIdx>>
               ELSE /\ enabled_users' =
                         Emit(enabled_users,
                              EnabledUserRecord(all_users[userIdx], processed_assignments'))
                    /\ userIdx' = userIdx + 1
                    /\ pc' = "UserLoop"
                    /\ asgIdx' = asgIdx

(* ---- get_account_name ---- *)
DescribeAccountOk ==
    /\ pc = "DescribeAccount"
    /\ AfterAccountName(AccountNameOf(all_assignments[asgIdx].AccountId))
    /\ Call("describe_account") /\ NoRaise
    /\ Count("describe_account", all_assignments[asgIdx].AccountId)
    /\ UNCHANGED aggregateFrame /\ UNCHANGED history

(* the lookup without its try/except: the ClientError leaves main *)
DescribeAccountError_Propagates ==
    /\ pc = "DescribeAccount" /\ CanFail
    /\ pc' = "ClientError"
    /\ Call("describe_account")
    /\ Raise("describe_account", EmptyStr)
    /\ Count("describe_account", all_assignments[asgIdx].AccountId)
    /\ UNCHANGED <<processed_assignments, enabled_users, asgIdx, userIdx,
                   permission_set_details>>
    /\ UNCHANGED aggregateFrame /\ UNCHANGED history

(* the handler returning '' instead of the account id *)
DescribeAccountError_EmptyName ==
    /\ pc = "DescribeAccount" /\ CanFail
    /\ AfterAccountName(EmptyStr)
    /\ Call("describe_account")
    /\ Raise("describe_account", EmptyStr)
    /\ Count("describe_account", all_assignments[asgIdx].AccountId)
    /\ UNCHANGED aggregateFrame /\ UNCHANGED history

(* except ClientError: return account_id *)
DescribeAccountError ==
    /\ pc = "DescribeAccount" /\ CanFail
    /\ AfterAccountName(all_assignments[asgIdx].AccountId)
    /\ Call("describe_account")
    /\ Raise("describe_account", EmptyStr)
    /\ Count("describe_account", all_assignments[asgIdx].AccountId)
    /\ UNCHANGED aggregateFrame /\ UNCHANGED history

(* ---- main line 268: export_to_json(enabled_users, json_filename) ---- *)
Export ==
    /\ pc = "Export"
    /\ exported' = Append(exported, enabled_users)
    /\ pc' = "Done"
    /\ UNCHANGED <<instance_arn, identity_store_id, permission_sets, permission_set_details,
                   all_users, enabled_users, failures, raised, lastCall, issued, callCount>>
    /\ UNCHANGED locals /\ UNCHANGED history

Next ==
    \/ ListInstancesOk
    \/ ListInstancesError
    \/ ListPermissionSetsOk
    \/ ListPermissionSetsError
    \/ CatalogLoop
    \/ DescribePermissionSetOk
    \/ DescribePermissionSetError
    \/ ListManagedPoliciesOk
    \/ ListManagedPoliciesError
    \/ GetInlinePolicyOk
    \/ GetInlinePolicyError
    \/ ListUsersOk
    \/ ListUsersError
    \/ UserLoop
    \/ PermissionSetLoop
    \/ ListAccountsOk
    \/ ListAccountsError
    \/ AccountLoop
    \/ ListAssignmentsOk
    \/ ListAssignmentsError
    \/ CheckAssignments
    \/ DescribeAccountOk
    \/ DescribeAccountError
    \/ Export

Spec == Init /\ [][Next]_vars

(* main runs sequentially to its end: a step that can be taken is taken *)
FairSpec == Spec /\ WF_vars(Next)

(***************************************************************************)
(* Properties                                                              *)
(***************************************************************************)
ListingOps == {"list_permission_sets", "list_users",
               "list_accounts_for_provisioned_permission_set",
               "list_account_assignments"}
NoListingFailed == \A r \in raised : r[1] \notin ListingOps

WorldPermissionSets == {PsArnOf(p) : p \in 1..NumPS}
WorldAccounts == {AccountIdOf(a) : a \in 1..NumAccounts}

IsProvisioned(ps_arn, account_id) ==
    \E i \in 1..Len(ProvisionedAccounts(ps_arn)) : ProvisionedAccounts(ps_arn)[i] = account_id

(* how many USER assignments the organisation holds for uid on a pair *)
Granted(uid, ps_arn, account_id) ==
    IF IsProvisioned(ps_arn, account_id)
    THEN Cardinality({i \in 1..Len(Principals(ps_arn, account_id)) :
                        /\ Principals(ps_arn, account_id)[i].PrincipalType = "USER"
                        /\ Principals(ps_arn, account_id)[i].PrincipalId = uid})
    ELSE 0

(* the positions of a list of assignments that are on a pair *)
EntriesOn(assignments, ps_arn, account_id) ==
    {i \in 1..Len(assignments) : /\ assignments[i].PermissionSetArn = ps_arn
                                 /\ assignments[i].AccountId = account_id}

RecordsOf(out, uid) == {j \in 1..Len(out) : out[j].UserId = uid}

(* C1: in a run that reached Done, a listed user is in the output handed  *)
(* to the sink exactly once if the correlator returned at least one       *)
(* assignment for the user and not at all if it returned none; the output *)
(* holds records of listed users only.                                    *)
C1_EnabledIffAssigned ==
    pc = "Done" =>
        /\ \A i \in 1..Len(all_users) :
              LET uid == all_users[i].UserId IN
              /\ uid \in DOMAIN returned
              /\ Cardinality(RecordsOf(exported[1], uid)) =
                    IF returned[uid] # <<>> THEN 1 ELSE 0
        /\ \A j \in 1..Len(exported[1]) :
              \E i \in 1..Len(all_users) : all_users[i].UserId = exported[1][j].UserId

C1_Witness ==
    /\ pc = "Done"
    /\ \E i, j \in 1..Len(all_users) :
          /\ returned[all_users[i].UserId] # <<>>
          /\ RecordsOf(exported[1], all_users[i].UserId) # {}
          /\ returned[all_users[j].UserId] = <<>>
          /\ RecordsOf(exported[1], all_users[j].UserId) = {}

(* C2: while no listing call has failed, the Assignments of every emitted *)
(* record hold, for every (permission set, account) pair, as many entries *)
(* as the organisation holds USER assignments of that user on the pair    *)
(* (none where the account is not provisioned for the permission set),    *)
(* and at Done every user holding an assignment has a record.             *)
C2_AllAssignmentsRetained ==
    NoListingFailed =>
        /\ \A j \in 1..Len(enabled_users) :
              LET r == enabled_users[j] IN
              /\ \A ps_arn \in WorldPermissionSets : \A account_id \in WorldAccounts :
                    Cardinality(EntriesOn(r.Assignments, ps_arn, account_id)) =
                        Granted(r.UserId, ps_arn, account_id)
              /\ \A i \in 1..Len(r.Assignments) :
                    /\ r.Assignments[i].PermissionSetArn \in WorldPermissionSets
                    /\ r.Assignments[i].AccountId \in WorldAccounts
        /\ pc = "Done" =>
              \A u \in 1..NumUsers :
                 (\E ps_arn \in WorldPermissionSets : \E account_id \in WorldAccounts :
                      Granted(UserIdOf(u), ps_arn, account_id) > 0)
                 => RecordsOf(enabled_users, UserIdOf(u)) # {}

C2_Witness ==
    /\ pc = "Done"
    /\ NoListingFailed
    /\ \E j \in 1..Len(enabled_users) :
          \E a, b \in 1..Len(enabled_users[j].Assignments) :
             enabled_users[j].Assignments[a].PermissionSetArn #
                enabled_users[j].Assignments[b].PermissionSetArn

(* C3: over a whole run describe_account is called at most once for every *)
(* account identifier.                                                    *)
C3_NameLookupOncePerAccount ==
    \A k \in DOMAIN callCount : k[1] = "describe_account" => callCount[k] <= 1

(* C4: a pair whose assignment listing failed contributes no assignment  *)
(* to the user's result, whatever was read before the failing page.       *)
C4_FailedPairContributesNothing ==
    \A pair \in failedPairs : EntriesOn(all_assignments, pair[1], pair[2]) = {}

CatalogOps == {"list_permission_sets", "describe_permission_set",
               "list_managed_policies_in_permission_set",
               "get_inline_policy_for_permission_set"}
CorrelationOps == {"list_accounts_for_provisioned_permission_set",
                   "list_account_assignments"}
FatalOps == {"list_instances", "list_users"}
Terminal == {"Done", "NoInstance", "UserListingFailed"}

(* C5: the run halts without output only when no instance was resolved or *)
(* the user listing failed, with nothing exported and no API call after   *)
(* the failing one; in every other state the run can take a step, so that *)
(* no other failure stops it, and at Done the output was handed to the    *)
(* sink exactly once.                                                     *)
C5_OnlyFatalFailuresHalt ==
    /\ pc = "NoInstance" =>
          /\ InstanceMissing(instance_arn, identity_store_id)
          /\ issued = {"list_instances"}
          /\ exported = <<>>
    /\ pc = "UserListingFailed" =>
          /\ <<"list_users", EmptyStr>> \in raised
          /\ lastCall = "list_users"
          /\ issued \cap CorrelationOps = {}
          /\ exported = <<>>
    /\ pc \notin Terminal => ENABLED Next
    /\ pc = "Done" => Len(exported) = 1
    /\ pc # "Done" => exported = <<>>

C5_Witness ==
    /\ pc = "Done"
    /\ Len(exported) = 1
    /\ \E r1, r2 \in raised : r1[1] # r2[1] /\ r1[1] \notin FatalOps /\ r2[1] \notin FatalOps

(* C6: when, in one correlation, only account-assignment listings failed, *)
(* every surviving pair yields what it yields when nothing fails, and a   *)
(* user whose assignments are all on failed pairs is not enabled.         *)
C6_FailedPairIsolated ==
    (/\ pc = "CheckAssignments"
     /\ failedPS = {}
     /\ <<"list_permission_sets", EmptyStr>> \notin raised)
    => /\ \A ps_arn \in WorldPermissionSets : \A account_id \in WorldAccounts :
             <<ps_arn, account_id>> \notin failedPairs =>
                Cardinality(EntriesOn(all_assignments, ps_arn, account_id)) =
                    Granted(user_id, ps_arn, account_id)
       /\ (\A ps_arn \in WorldPermissionSets : \A account_id \in WorldAccounts :
              Granted(user_id, ps_arn, account_id) > 0 => <<ps_arn, account_id>> \in failedPairs)
          => ~IsEnabled(all_assignments)

UsersPhase == {"ListUsers", "UserLoop", "PermissionSetLoop", "ListAccounts", "AccountLoop",
               "ListAssignments", "CheckAssignments", "DescribeAccount", "Export", "Done",
               "UserListingFailed"}

C7_CalledOnce ==
    /\ \A k \in DOMAIN callCount : k[1] \in CatalogOps => callCount[k] <= 1
    /\ lastCall \in CatalogOps => "list_users" \notin issued

C7_CatalogFrozen ==
    pc \in UsersPhase => /\ permission_set_details' = permission_set_details
                         /\ permission_sets' = permission_sets

(* C7: the permission-set listing is enumerated at most once and every    *)
(* permission set is described, and its managed and inline policies       *)
(* looked up, at most once per run, all before the first user-listing     *)
(* call; from the user listing on no catalog entry is written or changed. *)
C7_CatalogBuiltOnce == [](C7_CalledOnce) /\ [][C7_CatalogFrozen]_vars

C7_Witness ==
    /\ pc = "Done"
    /\ Len(enabled_users) >= 2
    /\ DOMAIN permission_set_details = WorldPermissionSets
    /\ \A ps_arn \in WorldPermissionSets : \A op \in CatalogOps \ {"list_permission_sets"} :
          Get(callCount, <<op, ps_arn>>, 0) = 1

Described(ps_arn) ==
    /\ ps_arn \in DOMAIN permission_set_details
    /\ <<"describe_permission_set", ps_arn>> \notin raised

ManagedExpected(ps_arn) ==
    IF <<"list_managed_policies_in_permission_set", ps_arn>> \in raised
    THEN <<>> ELSE AttachedManagedPolicies(ps_arn)

InlineExpected(ps_arn) ==
    IF <<"get_inline_policy_for_permission_set", ps_arn>> \in raised
    THEN EmptyStr ELSE InlinePolicyOf(ps_arn)

(* C8: for a permission set whose description succeeded both policy       *)
(* lookups were issued; its catalog entry keeps the name, ManagedPolicies *)
(* is [] if its lookup failed and the returned list otherwise, the inline *)
(* policy is '' if its lookup failed and the returned value otherwise,    *)
(* each independently of the other; the emitted assignment entries carry  *)
(* that name and that list.                                               *)
C8_PolicyLookupsIndependent ==
    /\ \A ps_arn \in WorldPermissionSets :
          Described(ps_arn) =>
             LET entry == permission_set_details[ps_arn] IN
             /\ Get(entry, "Name", EmptyStr) = PsDescription(ps_arn).Name
             /\ "ManagedPolicies" \in DOMAIN entry
             /\ entry.ManagedPolicies = ManagedExpected(ps_arn)
             /\ "InlinePolicy" \in DOMAIN entry
             /\ entry.InlinePolicy = InlineExpected(ps_arn)
             /\ Get(callCount, <<"list_managed_policies_in_permission_set", ps_arn>>, 0) = 1
             /\ Get(callCount, <<"get_inline_policy_for_permission_set", ps_arn>>, 0) = 1
    /\ \A j \in 1..Len(enabled_users) : \A i \in 1..Len(enabled_users[j].Assignments) :
          LET entry == enabled_users[j].Assignments[i] IN
          Described(entry.PermissionSetArn) =>
             /\ entry.PermissionSetName = PsDescription(entry.PermissionSetArn).Name
             /\ entry.ManagedPolicies = ManagedExpected(entry.PermissionSetArn)

C8_Witness ==
    \E j \in 1..Len(enabled_users) : \E i \in 1..Len(enabled_users[j].Assignments) :
       LET entry == enabled_users[j].Assignments[i] IN
       /\ Described(entry.PermissionSetArn)
       /\ <<"list_managed_policies_in_permission_set", entry.PermissionSetArn>> \in raised
       /\ entry.ManagedPolicies = <<>>
       /\ permission_set_details[entry.PermissionSetArn].InlinePolicy =
             InlinePolicyOf(entry.PermissionSetArn)
       /\ \E other \in WorldPermissionSets :
             /\ Described(other)
             /\ <<"get_inline_policy_for_permission_set", other>> \in raised
             /\ permission_set_details[other].ManagedPolicies = AttachedManagedPolicies(other)

(* C9: a permission set whose provisioned-account listing failed in the   *)
(* current correlation has no account-assignment listing issued and       *)
(* contributes no assignment; the correlation still visits every          *)
(* permission set, those skipped for an earlier user included.            *)
C9_FailedPermissionSetSkipped ==
    /\ \A ps_arn \in failedPS :
          /\ \A pair \in listedPairs : pair[1] # ps_arn
          /\ \A i \in 1..Len(all_assignments) : all_assignments[i].PermissionSetArn # ps_arn
    /\ pc = "CheckAssignments" =>
          listedPS = {permission_sets[i] : i \in 1..Len(permission_sets)}

C9_Witness ==
    /\ pc = "CheckAssignments"
    /\ \E ps_arn \in skippedBefore :
          /\ ps_arn \in listedPS \ failedPS
          /\ \E i \in 1..Len(all_assignments) : all_assignments[i].PermissionSetArn = ps_arn
    /\ \E ps_arn \in failedPS : accounts # <<>> /\ permission_sets[Len(permission_sets)] = ps_arn

Phase ==
    CASE pc = "Start" -> 0
      [] pc \in {"ListPermissionSets", "CatalogLoop", "DescribePermissionSet",
                 "ListManagedPolicies", "GetInlinePolicy"} -> 1
      [] pc = "ListUsers" -> 2
      [] pc \in {"UserLoop", "PermissionSetLoop", "ListAccounts", "AccountLoop",
                 "ListAssignments", "CheckAssignments", "DescribeAccount", "Export"} -> 3
      [] pc = "Done" -> 4
      [] OTHER -> 5

C10_PhaseStep ==
    \/ Phase' = Phase
    \/ Phase' = Phase + 1 /\ Phase < 4
    \/ pc = "Start" /\ pc' = "NoInstance"
    \/ pc = "ListUsers" /\ pc' = "UserListingFailed"

C10_CallsInPhase ==
    /\ lastCall \in CatalogOps \cup {"list_users", "describe_account"} \cup CorrelationOps =>
          instance_arn # EmptyStr /\ identity_store_id # EmptyStr
    /\ lastCall \in CatalogOps => Phase \in {1, 2} /\ "list_users" \notin issued
    /\ lastCall = "list_users" =>
          issued \cap (CorrelationOps \cup {"describe_account"}) = {}
    /\ lastCall \in CorrelationOps \cup {"describe_account"} =>
          /\ "list_users" \in issued
          /\ <<"list_users", EmptyStr>> \notin raised
          /\ all_users = DirectoryUsers
    /\ exported # <<>> => pc = "Done" /\ userIdx > Len(all_users)

(* C10: the phases of a run follow Start, InstanceResolved, CatalogBuilt, *)
(* UsersListed (with the per-user correlations), Done, one after the      *)
(* other; permission-set calls need a resolved instance, no catalog call  *)
(* follows a user-listing call, correlation calls come after the complete *)
(* user listing, and the sink gets the output only after the last user.   *)
C10_PhaseOrder == [](C10_CallsInPhase) /\ [][C10_PhaseStep]_vars

C10_Witness ==
    /\ pc = "Done"
    /\ exported # <<>>
    /\ issued = CatalogOps \cup CorrelationOps \cup FatalOps \cup {"describe_account"}

(* C11: every run ends in Done, NoInstance or UserListingFailed, whatever *)
(* calls fail; it ends in one of the two halts only through a missing     *)
(* instance or a failed user listing, and in no other way than these      *)
(* three.                                                                 *)
C11_Terminates ==
    /\ <>(pc \in Terminal)
    /\ [](pc = "NoInstance" => InstanceMissing(instance_arn, identity_store_id))
    /\ [](pc = "UserListingFailed" => <<"list_users", EmptyStr>> \in raised)
    /\ [](pc \notin Terminal => ENABLED Next)

C11_Witness ==
    /\ pc = "Done"
    /\ failures = MaxFailures
    /\ \A r \in raised : r[1] \notin FatalOps

(* the position in the user listing of the user a record is about *)
ListingIndex(uid) == CHOOSE i \in 1..Len(all_users) : all_users[i].UserId = uid

InListingOrder(out) ==
    /\ \A j \in 1..Len(out) : \E i \in 1..Len(all_users) : all_users[i].UserId = out[j].UserId
    /\ \A j1, j2 \in 1..Len(out) :
          j1 < j2 => ListingIndex(out[j1].UserId) < ListingIndex(out[j2].UserId)

(* C12: the user ids of the emitted records, and of the output handed to  *)
(* the sink, are a subsequence of the user ids in listing order.          *)
C12_ListingOrder ==
    /\ InListingOrder(enabled_users)
    /\ \A k \in 1..Len(exported) : InListingOrder(exported[k])

C12_Witness ==
    /\ pc = "Done"
    /\ failures > 0
    /\ Len(exported[1]) >= 2
    /\ exported[1][1].UserId[2] > exported[1][2].UserId[2]

IsPrefix(a, b) == Len(a) <= Len(b) /\ SubSeq(b, 1, Len(a)) = a

C13_Appended == IsPrefix(enabled_users, enabled_users')

(* C13: every step leaves the records emitted so far in place, unchanged, *)
(* and at most appends one record; the list at any step is a prefix of    *)
(* the list at every later step.                                          *)
C13_AppendOnly ==
    [][C13_Appended /\ Len(enabled_users') <= Len(enabled_users) + 1]_vars

C13_Witness ==
    /\ pc = "UserLoop"
    /\ Len(enabled_users) >= 2
    /\ \E i \in 1..Len(enabled_users) : Len(enabled_users[i].Assignments) >= 2

RECURSIVE Flatten(_)
(* the items of all pages, in page order *)
Flatten(pages) == IF pages = <<>> THEN <<>> ELSE Head(pages) \o Flatten(Tail(pages))

Correlating == {"UserLoop", "PermissionSetLoop", "ListAccounts", "AccountLoop",
                "ListAssignments", "CheckAssignments", "DescribeAccount", "Export", "Done"}

(* the entries of the correlator's result that are on a pair, in order *)
EntriesSeq(assignments, ps_arn, account_id) ==
    SelectSeq(assignments,
              LAMBDA e : e.PermissionSetArn = ps_arn /\ e.AccountId = account_id)

(* the USER principals of uid among items, in order *)
OwnItems(items, uid) ==
    SelectSeq(items, LAMBDA a : a.PrincipalType = "USER" /\ a.PrincipalId = uid)

(* C14: a listing that ended with no failing page collected the items of  *)
(* all its pages in order, the pages after an empty page included: the    *)
(* permission sets, the users, the provisioned accounts of a permission   *)
(* set and, per pair, the user's own assignments among all pages.         *)
C14_PagesConcatenated ==
    /\ (pc \in Correlating \cup {"CatalogLoop", "DescribePermissionSet",
                                 "ListManagedPolicies", "GetInlinePolicy", "ListUsers"}
        /\ <<"list_permission_sets", EmptyStr>> \notin raised)
       => permission_sets = Flatten(PermissionSetPages)
    /\ pc \in Correlating => all_users = Flatten(UserPages)
    /\ pc \in {"AccountLoop", "ListAssignments"} =>
          accounts = Flatten(AccountPages(permission_sets[psIdx]))
    /\ pc \in Correlating \ {"UserLoop", "Export", "Done"} =>
          \A pair \in listedPairs \ failedPairs :
             (pc = "ListAssignments" /\ pair = <<permission_sets[psIdx], accounts[acctIdx]>>)
             \/ LET own == OwnItems(Flatten(AssignmentPages(pair[1], pair[2])), user_id)
                    got == EntriesSeq(all_assignments, pair[1], pair[2])
                IN /\ Len(got) = Len(own)
                   /\ \A i \in 1..Len(got) : got[i].PrincipalId = own[i].PrincipalId

C14_Witness ==
    /\ pc = "CheckAssignments"
    /\ NoListingFailed
    /\ Len(permission_sets) = NumPS
    /\ Len(all_users) = NumUsers
    /\ \E pair \in listedPairs :
          /\ Len(AssignmentPages(pair[1], pair[2])) >= 3
          /\ AssignmentPages(pair[1], pair[2])[2] = <<>>
          /\ OwnItems(AssignmentPages(pair[1], pair[2])[3], user_id) # <<>>
          /\ EntriesSeq(all_assignments, pair[1], pair[2]) # <<>>

C15_Entries ==
    \A j \in 1..Len(enabled_users) :
       LET r == enabled_users[j] IN
       /\ r.UserId \in DOMAIN returned
       /\ Len(r.Assignments) = Len(returned[r.UserId])
       /\ \A i \in 1..Len(r.Assignments) :
             /\ r.Assignments[i].AccountId = returned[r.UserId][i].AccountId
             /\ r.Assignments[i].PermissionSetArn = returned[r.UserId][i].PermissionSetArn
             /\ r.Assignments[i].AccountName \in
                   {AccountNameOf(r.Assignments[i].AccountId), r.Assignments[i].AccountId}
             /\ <<"describe_account", EmptyStr>> \notin raised =>
                   r.Assignments[i].AccountName = AccountNameOf(r.Assignments[i].AccountId)

C15_FailedLookupStep ==
    (pc = "DescribeAccount" /\ failures' = failures + 1) =>
        LET a == all_assignments[asgIdx]
            e == processed_assignments'[Len(processed_assignments')]
        IN /\ processed_assignments' = Append(processed_assignments, e)
           /\ e.AccountName = a.AccountId
           /\ e.AccountId = a.AccountId
           /\ e.PermissionSetArn = a.PermissionSetArn
           /\ e.PermissionSetName =
                 Get(permission_set_details[a.PermissionSetArn], "Name", EmptyStr)
           /\ e.ManagedPolicies =
                 Get(permission_set_details[a.PermissionSetArn], "ManagedPolicies", <<>>)
           /\ IF asgIdx < Len(all_assignments)
              THEN /\ pc' = "DescribeAccount" /\ asgIdx' = asgIdx + 1
                   /\ enabled_users' = enabled_users
              ELSE /\ pc' = "UserLoop" /\ userIdx' = userIdx + 1
                   /\ Len(enabled_users') = Len(enabled_users) + 1
                   /\ LET rec == enabled_users'[Len(enabled_users')]
                      IN /\ rec.UserId = all_users[userIdx].UserId
                         /\ rec.Status = "ENABLED"
                         /\ rec.Assignments = processed_assignments'

(* C15: when describe_account fails the assignment entry is still         *)
(* appended, with AccountName equal to the account id and its other       *)
(* fields as the catalog gives them, and main goes on with the next       *)
(* assignment or emits the record; every emitted record has one entry per *)
(* returned assignment, named by the looked-up name or by the account id. *)
C15_NameFallback == [](C15_Entries) /\ [][C15_FailedLookupStep]_vars

C15_Witness ==
    \E j \in 1..Len(enabled_users) : \E a, b \in 1..Len(enabled_users[j].Assignments) :
       LET es == enabled_users[j].Assignments IN
       /\ es[a].AccountName = es[a].AccountId
       /\ es[b].AccountName = AccountNameOf(es[b].AccountId)
       /\ a < b

DescribeFailed(ps_arn) == <<"describe_permission_set", ps_arn>> \in raised

(* C16: whenever a record is being built every permission set of the      *)
(* returned assignments has a catalog entry (no KeyError); a permission   *)
(* set whose description failed has an empty entry, no managed- or        *)
(* inline-policy lookup, is still enumerated by every correlation, and    *)
(* the entries that reference it have PermissionSetName '' and            *)
(* ManagedPolicies [].                                                     *)
C16_CatalogTotal ==
    /\ pc # "KeyError"
    /\ pc \in Correlating =>
          \A i \in 1..Len(all_assignments) :
             all_assignments[i].PermissionSetArn \in DOMAIN permission_set_details
    /\ \A ps_arn \in WorldPermissionSets :
          DescribeFailed(ps_arn) =>
             /\ ps_arn \in DOMAIN permission_set_details
             /\ DOMAIN permission_set_details[ps_arn] = {}
             /\ Get(callCount, <<"list_managed_policies_in_permission_set", ps_arn>>, 0) = 0
             /\ Get(callCount, <<"get_inline_policy_for_permission_set", ps_arn>>, 0) = 0
             /\ pc = "CheckAssignments" => ps_arn \in listedPS
    /\ \A j \in 1..Len(enabled_users) : \A i \in 1..Len(enabled_users[j].Assignments) :
          LET entry == enabled_users[j].Assignments[i] IN
          DescribeFailed(entry.PermissionSetArn) =>
             entry.PermissionSetName = EmptyStr /\ entry.ManagedPolicies = <<>>

C16_Witness ==
    \E j \in 1..Len(enabled_users) : \E i \in 1..Len(enabled_users[j].Assignments) :
       LET entry == enabled_users[j].Assignments[i] IN
       /\ DescribeFailed(entry.PermissionSetArn)
       /\ entry.PermissionSetName = EmptyStr
       /\ entry.ManagedPolicies = <<>>

PermissionSetListingFailed == <<"list_permission_sets", EmptyStr>> \in raised

(* C17: once a page of the permission-set listing has failed the list of  *)
(* permission sets and the catalog are empty and stay so; the run goes on *)
(* to list the users and halts only if that listing fails; no permission- *)
(* set lookup, provisioned-account, account-assignment or account-name    *)
(* call is issued, every correlation returns nothing, no record is        *)
(* emitted and at Done the empty output was exported.                     *)
C17_EmptyCatalogRun ==
    PermissionSetListingFailed =>
        /\ permission_sets = <<>>
        /\ DOMAIN permission_set_details = {}
        /\ issued \subseteq {"list_instances", "list_permission_sets", "list_users"}
        /\ pc \in {"CatalogLoop", "ListUsers", "UserLoop", "PermissionSetLoop",
                   "CheckAssignments", "Export", "Done", "UserListingFailed"}
        /\ pc = "UserListingFailed" => <<"list_users", EmptyStr>> \in raised
        /\ all_assignments = <<>>
        /\ \A uid \in DOMAIN returned : returned[uid] = <<>>
        /\ enabled_users = <<>>
        /\ pc = "Done" =>
              /\ all_users = Flatten(UserPages)
              /\ \A i \in 1..Len(all_users) : all_users[i].UserId \in DOMAIN returned
              /\ exported = << <<>> >>

C17_Witness ==
    /\ PermissionSetListingFailed
    /\ pc = "Done"
    /\ Len(all_users) = NumUsers
    /\ exported = << <<>> >>

====
